---- MODULE Spec2Model ----
(***************************************************************************)
(* Model of the concurrent batch PDF downloader of PaperGenie               *)
(* (src/modules/research/downloader.py): DownloadManager.download_pdf, one  *)
(* coroutine per URL under an asyncio.Semaphore, and batch_download_pdfs,   *)
(* which gathers the coroutines and builds the report.                      *)
(*                                                                         *)
(* One step of the model is one run of a coroutine between two suspension   *)
(* points (await session.get, await response.read, await run_in_executor,   *)
(* await asyncio.sleep), or one step of a worker thread of the pool.        *)
(***************************************************************************)
EXTENDS Integers, Sequences, FiniteSets, TLC

(***************************************************************************)
(* Bounds of the model.                                                    *)
(***************************************************************************)
\* longest URL list handed to batch_download_pdfs
MaxUrls == 2
\* largest max_concurrent the manager is constructed with
MaxConcurrent == 2
\* the largest retry counter the backoff delay is tabulated for
MaxExponent == 7

(***************************************************************************)
(* Program constants.                                                      *)
(***************************************************************************)
\* DownloadManager.__init__: max_retries: int = 3
max_retries == 3
\* download_pdf: wait_time = min(2 ** retry_count, 32)
BackoffCap == 32

\* DownloadStatus, the enum's six members
SUCCESS == "SUCCESS"
FORBIDDEN == "FORBIDDEN"
NOT_FOUND == "NOT_FOUND"
SSL_ERROR == "SSL_ERROR"
NETWORK_ERROR == "NETWORK_ERROR"
UNKNOWN_ERROR == "UNKNOWN_ERROR"
DownloadStatus == {SUCCESS, FORBIDDEN, NOT_FOUND, SSL_ERROR, NETWORK_ERROR, UNKNOWN_ERROR}

(***************************************************************************)
(* Inputs: URLs, and what the network and the disk may answer.             *)
(* A URL is its host and the segments of its path; a file name is a        *)
(* sequence of pieces, so that "ends in .pdf" is a test and not a label.   *)
(***************************************************************************)
UrlA == [host |-> "a.org", path |-> << <<"x", ".pdf">> >>]
UrlB == [host |-> "b.org", path |-> << <<"d">>, <<"x">> >>]
UrlC == [host |-> "a.org", path |-> << <<"d">>, <<>> >>]
URLS == {UrlA, UrlB, UrlC}

\* HTTP statuses a GET may answer with
Statuses == {200, 403, 404, 500}
\* values of the content-type header ("" when the header is absent)
ContentTypes == {"application/pdf", "text/html", ""}
\* response bodies, as sequences of 4-byte blocks
BodyShort == <<"%PDF", "s1">>
BodyLong == <<"%PDF", "l1", "l2">>
BodyHtml == <<"<htm", "l>">>
\* bodies that are no PDF: a page of HTML, and nothing at all
BadBodies == {BodyHtml, <<>>}
\* classes of transient failure: a retryable HTTP status, an exception of the
\* transport, an exception of the disk write
Faults == {"http", "transport", "disk"}
\* str(e) of an exception raised by session.get or response.read
TransportErrors == {"ClientConnectorError"}
\* str(e) of an exception raised by open(...).write(...)
DiskErrors == {"OSError"}

None == "None"

VARIABLES
    urls,          \* the list handed to batch_download_pdfs
    max_concurrent,\* DownloadManager(max_concurrent=...)
    sem,           \* manager.semaphore._value
    session,       \* manager.session: None, "open" or "closed"
    created,       \* how many ClientSession objects the manager has built
    pc,            \* where each download_pdf coroutine is suspended
    retry_count,   \* download_pdf's local retry_count
    content,       \* download_pdf's local content (body read)
    result,        \* the DownloadResult each coroutine returned (NoResult before)
    attempts,      \* per coroutine, one record per GET it issued (observation only)
    files,         \* the output directory: file name -> does it exist, its bytes
    pbar,          \* tqdm's counter n
    batchPc,       \* batch_download_pdfs: "gather" or "returned"
    results,       \* batch_download_pdfs's results dict, in insertion order
    faults,        \* what can go wrong in this run: classes of transient failure
    stats,         \* the counts batch_download_pdfs prints (lines 127-131)
    run,           \* 1 in the first call of batch_download_pdfs, 2 in a second
    first,         \* what the first call left: the statuses and the directory
    seed,          \* the hash salt of the interpreter that runs the call
    finished       \* the coroutines in the order they returned (observation only)

vars == <<urls, max_concurrent, sem, session, created, pc, retry_count, content,
          result, attempts, files, pbar, batchPc, results, faults, stats, run,
          first, seed, finished>>

Tasks == DOMAIN urls

(***************************************************************************)
(* Pure helpers.                                                           *)
(***************************************************************************)
Min(a, b) == IF a < b THEN a ELSE b

RECURSIVE Pow2(_)
Pow2(n) == IF n = 0 THEN 1 ELSE 2 * Pow2(n - 1)

\* variant: the exponent is the number of the attempt, counted from 1
WaitTimeOffByOne(rc) == Min(Pow2(rc + 1), BackoffCap)

\* wait_time = min(2 ** retry_count, 32)
WaitTime(rc) == Min(Pow2(rc), BackoffCap)

\* os.path.basename(urlparse(url).path): what follows the last "/"
Basename(url) == IF url.path = <<>> THEN <<>> ELSE url.path[Len(url.path)]

\* the salts two interpreters may hash strings with (PYTHONHASHSEED unset)
Seeds == {"salt1", "salt2"}

\* hash(url) under a salt, as the digits f"{hash(url)}" prints
HashIn(url, salt) ==
    IF salt = "salt1"
    THEN IF url = UrlA THEN "11" ELSE IF url = UrlB THEN "22" ELSE "33"
    ELSE IF url = UrlA THEN "44" ELSE IF url = UrlB THEN "55" ELSE "66"

\* hash(url) in the interpreter that runs the call
Hash(url) == HashIn(url, seed)

\* variant: the extension is appended whatever the name ends with
EndsWithPdfNever(name) == FALSE

\* filename.endswith(".pdf")
EndsWithPdf(name) == name # <<>> /\ name[Len(name)] = ".pdf"

\* lines 72-77: the name of the file under output_dir, h being hash(url)
NameWith(url, h) ==
    LET base == IF Basename(url) # <<>> THEN Basename(url)
                ELSE <<"document_", h, ".pdf">>
    IN  IF EndsWithPdf(base) THEN base ELSE Append(base, ".pdf")

\* lines 72-77: filename, without the output_dir it is joined to
Filename(url) == NameWith(url, Hash(url))

\* 'application/pdf' in response.headers.get('content-type', '')
IsPdfType(ct) == ct = "application/pdf"

\* variant: the signature check only asks for a body
StartsWithPdfAny(body) == body # <<>>

\* content.startswith(b'%PDF')
StartsWithPdf(body) == body # <<>> /\ body[1] = "%PDF"

\* the names a batch can write to
FileNames == {NameWith(u, HashIn(u, salt)) : u \in URLS, salt \in Seeds}

\* a write of body at offset 0 into a file that holds old
Overwrite(old, body) ==
    IF Len(old) <= Len(body) THEN body
    ELSE body \o SubSeq(old, Len(body) + 1, Len(old))

\* variant: the report is a list of pairs, appended to
DictSetAppend(d, k, v) == Append(d, [key |-> k, value |-> v])

\* results[url] = result on a dict that keeps insertion order
DictSet(d, k, v) ==
    IF \E i \in DOMAIN d : d[i].key = k
    THEN [i \in DOMAIN d |-> IF d[i].key = k THEN [key |-> k, value |-> v] ELSE d[i]]
    ELSE Append(d, [key |-> k, value |-> v])

\* variant: the results are taken in the order the coroutines returned
RECURSIVE ZipIntoAsCompleted(_, _, _, _)
ZipIntoAsCompleted(d, us, rs, i) ==
    IF i > Min(Len(us), Len(rs)) THEN d
    ELSE ZipIntoAsCompleted(DictSet(d, us[i], rs[finished[i]]), us, rs, i + 1)

\* for url, result in zip(urls, download_results): results[url] = result
RECURSIVE ZipInto(_, _, _, _)
ZipInto(d, us, rs, i) ==
    IF i > Min(Len(us), Len(rs)) THEN d
    ELSE ZipInto(DictSet(d, us[i], rs[i]), us, rs, i + 1)

\* DownloadResult.message: the text, and what the f-string puts into it
Message(text, code, path, detail) ==
    [text |-> text, code |-> code, path |-> path, detail |-> detail]

DownloadResult(url, status, message) ==
    [url |-> url, status |-> status, message |-> message]

\* a coroutine that has not returned
NoResult == DownloadResult(UrlA, None, Message("", 0, <<>>, ""))

NoFile == [exists |-> FALSE, data |-> <<>>]

\* the PDF a server holds for a URL
BodyOf(url) == IF url.host = "a.org" THEN BodyShort ELSE BodyLong

\* the statuses download_pdf retries on: everything but 200, 403 and 404
Retryable(status) == status \notin {200, 403, 404}

\* one GET's answer: status line and content-type header
Responses ==
    {[status |-> 200, ctype |-> ct] : ct \in ContentTypes}
    \cup {[status |-> s, ctype |-> "text/html"] : s \in Statuses \ {200}}

(***************************************************************************)
(* What is observed of one attempt (one GET): the status and content-type  *)
(* received (status 0: none), the body read, the exception caught, how far *)
(* the write got, the seconds slept after it (0: no sleep), and which of   *)
(* the manager's sessions, counted from 1, the GET was issued on.          *)
(***************************************************************************)
Unread == <<"(unread)">>
NewAttempt ==
    [status |-> 0, ctype |-> "", body |-> Unread, err |-> "", io |-> "none", slept |-> 0,
     sess |-> 0]

\* the coroutine's attempts, the last one replaced by a
SetLast(as, a) == [as EXCEPT ![Len(as)] = a]
Last(as) == as[Len(as)]

(***************************************************************************)
(* Initial state: batch_download_pdfs is called and is about to build its   *)
(* manager (line 117).  A batch of one URL is run against                  *)
(* every class of transient failure at once, a batch of two against one    *)
(* class at a time, a longer batch against none (its downloads end on      *)
(* their first attempt, with any of the statuses that needs no retry).     *)
(***************************************************************************)
UrlLists == UNION {[1..n -> URLS] : n \in 0..MaxUrls}

FaultSets(us) ==
    IF Len(us) <= 1 THEN {Faults}
    ELSE IF Len(us) = 2 THEN {{f} : f \in Faults}
    ELSE {{}}

\* the counts before they are printed
NoStats == [printed |-> FALSE, total |-> 0, succeeded |-> 0, failed |-> 0]

\* nothing is remembered of a call before it has returned
NoFirst == [statuses |-> <<>>, files |-> [f \in FileNames |-> NoFile]]

Init ==
    /\ urls \in UrlLists
    /\ faults \in FaultSets(urls)
    /\ max_concurrent \in -1..MaxConcurrent
    /\ sem = 0
    /\ stats = NoStats
    /\ run = 1
    /\ first = NoFirst
    /\ seed = "salt1"
    /\ finished = <<>>
    /\ session = None
    /\ created = 0
    /\ pc = [t \in DOMAIN urls |-> "waiting"]
    /\ retry_count = [t \in DOMAIN urls |-> 0]
    /\ content = [t \in DOMAIN urls |-> <<>>]
    /\ result = [t \in DOMAIN urls |-> NoResult]
    /\ attempts = [t \in DOMAIN urls |-> <<>>]
    /\ files = [f \in FileNames |-> NoFile]
    /\ pbar = 0
    /\ batchPc = "construct"
    /\ results = <<>>

(***************************************************************************)
(* The ways a run of download_pdf between two suspension points can end.   *)
(* as is the coroutine's attempts as the run leaves them, acq is 1 when    *)
(* the run began by taking a token.                                        *)
(***************************************************************************)
\* variant: the return keeps the token
ReturnLeaks(t, status, message, as, acq) ==
    /\ result' = [result EXCEPT ![t] = DownloadResult(urls[t], status, message)]
    /\ pc' = [pc EXCEPT ![t] = "done"]
    /\ sem' = sem - acq
    /\ attempts' = [attempts EXCEPT ![t] = as]
    /\ finished' = Append(finished, t)
    /\ UNCHANGED <<retry_count, session, created>>

\* return DownloadResult(...), leaving "async with self.semaphore"
Return(t, status, message, as, acq) ==
    /\ result' = [result EXCEPT ![t] = DownloadResult(urls[t], status, message)]
    /\ pc' = [pc EXCEPT ![t] = "done"]
    /\ sem' = sem - acq + 1
    /\ attempts' = [attempts EXCEPT ![t] = as]
    /\ finished' = Append(finished, t)
    /\ UNCHANGED <<retry_count, session, created>>

\* an exception leaves download_pdf, and "async with self.semaphore" with it
Raise(t, as) ==
    /\ pc' = [pc EXCEPT ![t] = "raised"]
    /\ sem' = sem + 1
    /\ attempts' = [attempts EXCEPT ![t] = as]
    /\ UNCHANGED <<result, retry_count, session, created, finished>>

\* suspend at the next await
Suspend(t, at, as) ==
    /\ pc' = [pc EXCEPT ![t] = at]
    /\ attempts' = [attempts EXCEPT ![t] = as]
    /\ UNCHANGED <<result, sem, retry_count, session, created, finished>>

\* variant: get_session builds a session on every call
NeedsSessionAlways == TRUE

\* line 45: if self.session is None
NeedsSession == session = None

\* lines 64-67: the while test with retry_count = rc, get_session, session.get;
\* line 110 when the test fails
EnterLoop(t, rc, as, acq) ==
    IF rc < max_retries
    THEN /\ retry_count' = [retry_count EXCEPT ![t] = rc]
         /\ session' = IF NeedsSession THEN "open" ELSE session
         /\ created' = IF NeedsSession THEN created + 1 ELSE created
         /\ pc' = [pc EXCEPT ![t] = "get"]
         /\ sem' = sem - acq
         /\ attempts' = [attempts EXCEPT ![t] =
                            Append(as, [NewAttempt EXCEPT !.sess = created'])]
         /\ UNCHANGED <<result, finished>>
    ELSE /\ retry_count' = [retry_count EXCEPT ![t] = rc]
         /\ result' = [result EXCEPT ![t] = DownloadResult(urls[t], UNKNOWN_ERROR,
                                            Message("max retries exceeded", 0, <<>>, ""))]
         /\ pc' = [pc EXCEPT ![t] = "done"]
         /\ sem' = sem - acq + 1
         /\ attempts' = [attempts EXCEPT ![t] = as]
         /\ finished' = Append(finished, t)
         /\ UNCHANGED <<session, created>>

\* variant: the last attempt is taken to be the one before
LastAttemptEarly(rc) == rc = max_retries - 2

\* lines 98 and 105: retry_count == self.max_retries - 1
LastAttempt(rc) == rc = max_retries - 1

\* variant: 403 falls into the else branch
ClassifyRetries403(status) ==
    IF status = 200 THEN "ok"
    ELSE IF status = 404 THEN "missing"
    ELSE "retry"

\* lines 68, 93, 95 and 97: the if / elif / elif / else on response.status
Classify(status) ==
    IF status = 200 THEN "ok"
    ELSE IF status = 403 THEN "forbidden"
    ELSE IF status = 404 THEN "missing"
    ELSE "retry"

\* variant: the except clause re-raises on the last attempt
OnExceptionEscapes(t, detail, as) ==
    IF LastAttempt(retry_count[t])
    THEN Raise(t, as)
    ELSE EnterLoop(t, retry_count[t] + 1, as, 0)

\* variant: the except clause reports the enum's SSL_ERROR
OnExceptionSsl(t, detail, as) ==
    IF LastAttempt(retry_count[t])
    THEN Return(t, SSL_ERROR, Message("", 0, <<>>, detail), as, 0)
    ELSE EnterLoop(t, retry_count[t] + 1, as, 0)

\* variant: the except clause backs off before the next attempt
OnExceptionSleeps(t, detail, as) ==
    IF LastAttempt(retry_count[t])
    THEN Return(t, UNKNOWN_ERROR, Message("", 0, <<>>, detail), as, 0)
    ELSE Suspend(t, "sleep",
                 SetLast(as, [Last(as) EXCEPT !.slept = WaitTime(retry_count[t])]))

\* lines 104-108: except Exception as e, then retry_count += 1
OnException(t, detail, as) ==
    IF LastAttempt(retry_count[t])
    THEN Return(t, UNKNOWN_ERROR, Message("", 0, <<>>, detail), as, 0)
    ELSE EnterLoop(t, retry_count[t] + 1, as, 0)

\* lines 68-70 and 93-102: the branch on response.status
OnResponse(t, r) ==
    LET as == SetLast(attempts[t],
                      [Last(attempts[t]) EXCEPT !.status = r.status, !.ctype = r.ctype])
    IN  IF Classify(r.status) = "ok"
        THEN IF ~IsPdfType(r.ctype)
             THEN Return(t, NOT_FOUND,
                         Message("response is not a PDF file", 0, <<>>, ""), as, 0)
             ELSE Suspend(t, "read", as)
        ELSE IF Classify(r.status) = "forbidden"
        THEN Return(t, FORBIDDEN, Message("access denied", 0, <<>>, ""), as, 0)
        ELSE IF Classify(r.status) = "missing"
        THEN Return(t, NOT_FOUND, Message("file does not exist", 0, <<>>, ""), as, 0)
        ELSE IF LastAttempt(retry_count[t])
        THEN Return(t, UNKNOWN_ERROR, Message("HTTP error", r.status, <<>>, ""), as, 0)
        ELSE Suspend(t, "sleep",
                     SetLast(as, [Last(as) EXCEPT !.slept = WaitTime(retry_count[t])]))

\* lines 80-88: the body has been read
OnBody(t, b) ==
    LET as == SetLast(attempts[t], [Last(attempts[t]) EXCEPT !.body = b])
    IN  IF ~StartsWithPdf(b)
        THEN /\ Return(t, NOT_FOUND,
                       Message("content is not in PDF format", 0, <<>>, ""), as, 0)
             /\ UNCHANGED content
        ELSE /\ Suspend(t, "wqueue", as)
             /\ content' = [content EXCEPT ![t] = b]

\* the coroutine's attempts once the current one caught exception d
Caught(t, d) == SetLast(attempts[t], [Last(attempts[t]) EXCEPT !.err = d])

\* the coroutine's attempts once the write of the current one got as far as io
Wrote(t, io) == SetLast(attempts[t], [Last(attempts[t]) EXCEPT !.io = io])

(***************************************************************************)
(* The steps of download_pdf.                                              *)
(***************************************************************************)
\* variant: the write runs on the event loop's thread
BlockingAtWrite == {"wqueue", "wopen"}

\* lines 84-88: where a suspended coroutine keeps the event loop's thread
\* busy: nowhere, the write is handed to the pool by run_in_executor
BlockingAt == {}

\* the event loop can resume a coroutine whose await is over
LoopFree == \A u \in Tasks : pc[u] \notin BlockingAt

\* variant: the semaphore lets a coroutine in when no token is left
UnlockedOffByOne == sem >= 0

\* variant: the semaphore keeps its last token back
UnlockedNeedsTwo == sem > 1

\* the semaphore lets a coroutine in: self._value > 0
Unlocked == sem > 0

\* line 56, then lines 57-67 up to the first await of session.get
Acquire(t) ==
    /\ batchPc = "gather"
    /\ pc[t] = "waiting"
    /\ LoopFree
    /\ Unlocked
    /\ EnterLoop(t, 0, attempts[t], 1)
    /\ UNCHANGED <<urls, max_concurrent, content, files, pbar, batchPc, results, faults, stats, run,
                   first, seed>>

\* session.get answers with a status line and headers
GetResponds(t) ==
    /\ pc[t] = "get"
    /\ LoopFree
    /\ \E r \in Responses :
         /\ Retryable(r.status) => "http" \in faults
         /\ OnResponse(t, r)
    /\ UNCHANGED <<urls, max_concurrent, content, files, pbar, batchPc, results, faults, stats, run,
                   first, seed>>

\* session.get raises (connection refused, DNS, TLS, timeout)
GetFails(t) ==
    /\ pc[t] = "get"
    /\ LoopFree
    /\ "transport" \in faults
    /\ \E d \in TransportErrors : OnException(t, d, Caught(t, d))
    /\ UNCHANGED <<urls, max_concurrent, content, files, pbar, batchPc, results, faults, stats, run,
                   first, seed>>

\* await response.read() returns the body
ReadCompletes(t) ==
    /\ pc[t] = "read"
    /\ LoopFree
    /\ \E b \in {BodyOf(urls[t])} \cup BadBodies : OnBody(t, b)
    /\ UNCHANGED <<urls, max_concurrent, files, pbar, batchPc, results, faults, stats, run,
                   first, seed>>

\* await response.read() raises
ReadFails(t) ==
    /\ pc[t] = "read"
    /\ LoopFree
    /\ "transport" \in faults
    /\ \E d \in TransportErrors : OnException(t, d, Caught(t, d))
    /\ UNCHANGED <<urls, max_concurrent, content, files, pbar, batchPc, results, faults, stats, run,
                   first, seed>>

\* worker thread: open(filename, 'wb') creates or truncates the file
WorkerOpen(t) ==
    /\ pc[t] = "wqueue"
    /\ files' = [files EXCEPT ![Filename(urls[t])] = [exists |-> TRUE, data |-> <<>>]]
    /\ Suspend(t, "wopen", Wrote(t, "opened"))
    /\ UNCHANGED <<urls, max_concurrent, content, pbar, batchPc, results, faults, stats, run,
                   first, seed>>

\* worker thread: open raises; the coroutine resumes in the except clause
WorkerOpenFails(t) ==
    /\ pc[t] = "wqueue"
    /\ "disk" \in faults
    /\ \E d \in DiskErrors : OnException(t, d, Caught(t, d))
    /\ UNCHANGED <<urls, max_concurrent, content, files, pbar, batchPc, results, faults, stats, run,
                   first, seed>>

\* worker thread: .write(content) at offset 0 of its own file object
WorkerWrite(t) ==
    /\ pc[t] = "wopen"
    /\ files' = [files EXCEPT ![Filename(urls[t])] =
                    [exists |-> TRUE, data |-> Overwrite(@.data, content[t])]]
    /\ Suspend(t, "wdone", Wrote(t, "written"))
    /\ UNCHANGED <<urls, max_concurrent, content, pbar, batchPc, results, faults, stats, run,
                   first, seed>>

\* worker thread: .write raises after the file was opened
WorkerWriteFails(t) ==
    /\ pc[t] = "wopen"
    /\ "disk" \in faults
    /\ \E d \in DiskErrors : OnException(t, d, Caught(t, d))
    /\ UNCHANGED <<urls, max_concurrent, content, files, pbar, batchPc, results, faults, stats, run,
                   first, seed>>

\* lines 90-91: the executor's future is done; pbar.update(1); return SUCCESS
WriteReturns(t) ==
    /\ pc[t] = "wdone"
    /\ LoopFree
    /\ pbar' = pbar + 1
    /\ Return(t, SUCCESS, Message("downloaded to", 0, Filename(urls[t]), ""),
              attempts[t], 0)
    /\ UNCHANGED <<urls, max_concurrent, content, files, batchPc, results, faults, stats, run,
                   first, seed>>

\* lines 102 and 108: asyncio.sleep is over; retry_count += 1
SleepDone(t) ==
    /\ pc[t] = "sleep"
    /\ LoopFree
    /\ EnterLoop(t, retry_count[t] + 1, attempts[t], 0)
    /\ UNCHANGED <<urls, max_concurrent, content, files, pbar, batchPc, results, faults, stats, run,
                   first, seed>>

(***************************************************************************)
(* batch_download_pdfs, lines 117-144.                                     *)
(***************************************************************************)
\* line 31: asyncio.Semaphore(value) raises ValueError when value < 0
SemaphoreOk(n) == n >= 0

\* variant: the worker pool takes any size
PoolOkAny(n) == TRUE

\* line 41: ThreadPoolExecutor(max_workers) raises ValueError when
\* max_workers <= 0
PoolOk(n) == n > 0

\* line 117: DownloadManager(max_concurrent); a ValueError of __init__ leaves
\* batch_download_pdfs, which has not entered its try yet
Construct ==
    /\ batchPc = "construct"
    /\ IF SemaphoreOk(max_concurrent) /\ PoolOk(max_concurrent)
       THEN batchPc' = "gather" /\ sem' = max_concurrent
       ELSE batchPc' = "config_error" /\ sem' = sem
    /\ UNCHANGED <<urls, max_concurrent, session, created, pc, retry_count, content, result,
                   attempts, files, pbar, results, faults, stats, run, first, seed,
                   finished>>

\* lines 127-131: success_count, and the three numbers printed
Counts(us, d) ==
    LET success_count == Cardinality({i \in DOMAIN d : d[i].value.status = SUCCESS})
    IN  [printed |-> TRUE, total |-> Len(us), succeeded |-> success_count,
         failed |-> Len(us) - success_count]

\* variant: the batch goes on as soon as one coroutine has returned
GatherFirstDone == \E t \in Tasks : pc[t] = "done"

\* asyncio.gather: it returns when every coroutine has returned, and raises
\* as soon as one of them raises
GatherDone == \A t \in Tasks : pc[t] = "done"
GatherRaises == \E t \in Tasks : pc[t] = "raised"

\* lines 122-125 and 138-144: the report is filled after a gather that
\* returned and left empty after one that raised; the session is closed
BatchReturn ==
    /\ batchPc = "gather"
    /\ GatherRaises \/ GatherDone
    /\ results' = IF GatherRaises THEN <<>>
                  ELSE ZipInto(<<>>, urls, [t \in Tasks |-> result[t]], 1)
    /\ stats' = IF GatherRaises THEN stats ELSE Counts(urls, results')
    /\ session' = IF session = "open" THEN "closed" ELSE session
    /\ created' = created
    /\ batchPc' = "returned"
    /\ UNCHANGED <<urls, max_concurrent, sem, pc, retry_count, content, result,
                   attempts, files, pbar, faults, run, first, seed, finished>>

Next ==
    \/ \E t \in Tasks : Acquire(t)
    \/ \E t \in Tasks : GetResponds(t)
    \/ \E t \in Tasks : GetFails(t)
    \/ \E t \in Tasks : ReadCompletes(t)
    \/ \E t \in Tasks : ReadFails(t)
    \/ \E t \in Tasks : WorkerOpen(t)
    \/ \E t \in Tasks : WorkerOpenFails(t)
    \/ \E t \in Tasks : WorkerWrite(t)
    \/ \E t \in Tasks : WorkerWriteFails(t)
    \/ \E t \in Tasks : WriteReturns(t)
    \/ \E t \in Tasks : SleepDone(t)
    \/ BatchReturn
    \/ Construct

Spec == Init /\ [][Next]_vars

\* whatever coroutine t does next, once the event loop resumes it or its
\* worker thread runs
TaskStep(t) ==
    \/ Acquire(t)
    \/ GetResponds(t)
    \/ GetFails(t)
    \/ ReadCompletes(t)
    \/ ReadFails(t)
    \/ WorkerOpen(t)
    \/ WorkerOpenFails(t)
    \/ WorkerWrite(t)
    \/ WorkerWriteFails(t)
    \/ WriteReturns(t)
    \/ SleepDone(t)

\* the event loop resumes every coroutine whose await is over (a GET ends by
\* its timeout at the latest, a sleep and a disk write end), the pool runs
\* every queued write, and batch_download_pdfs goes on when gather is done
Fairness ==
    /\ \A t \in 1..MaxUrls : WF_vars(t \in Tasks /\ TaskStep(t))
    /\ WF_vars(Construct)
    /\ WF_vars(BatchReturn)

\* the batches termination is checked on: URLs with a basename, two of which
\* share their file (the fallback name plays no part in the scheduling)
InitFair == Init /\ \A t \in DOMAIN urls : urls[t] \in {UrlA, UrlB}

SpecFair == InitFair /\ [][Next]_vars /\ Fairness

(***************************************************************************)
(* A second call of batch_download_pdfs with the same URLs and the same    *)
(* output_dir, in the same interpreter or in a new one, after a first call *)
(* in which every download succeeded on its first attempt.  The directory  *)
(* is kept, everything else is built anew; the second call meets no        *)
(* transient failure.                                                      *)
(***************************************************************************)
Rerun ==
    /\ batchPc = "returned"
    /\ run = 1
    /\ \A t \in Tasks : result[t].status = SUCCESS /\ Len(attempts[t]) = 1
    /\ run' = 2
    /\ first' = [statuses |-> [t \in Tasks |-> result[t].status], files |-> files]
    /\ seed' \in Seeds
    /\ faults' = {}
    /\ sem' = 0
    /\ stats' = NoStats
    /\ session' = None
    /\ created' = 0
    /\ pc' = [t \in Tasks |-> "waiting"]
    /\ retry_count' = [t \in Tasks |-> 0]
    /\ content' = [t \in Tasks |-> <<>>]
    /\ result' = [t \in Tasks |-> NoResult]
    /\ attempts' = [t \in Tasks |-> <<>>]
    /\ pbar' = 0
    /\ batchPc' = "construct"
    /\ results' = <<>>
    /\ finished' = <<>>
    /\ UNCHANGED <<urls, max_concurrent, files>>

NextTwice == Next \/ Rerun

SpecTwice == Init /\ [][NextTwice]_vars

(***************************************************************************)
(* Properties.                                                             *)
(***************************************************************************)
\* the coroutine is inside "async with self.semaphore"
Holding(t) == pc[t] \in {"get", "read", "wqueue", "wopen", "wdone", "sleep"}
Holders == {t \in Tasks : Holding(t)}
Terminated(t) == pc[t] = "done"
Gets(t) == Len(attempts[t])
UrlSet == {urls[t] : t \in Tasks}
ReportKeys == {results[i].key : i \in DOMAIN results}
SpecStatuses == {SUCCESS, FORBIDDEN, NOT_FOUND, NETWORK_ERROR, UNKNOWN_ERROR}

\* C1: once the manager is built, the number of coroutines holding a token
\* (issuing a GET, reading, sleeping in backoff or writing) never exceeds
\* max_concurrent.
C1_InFlightBounded ==
    batchPc \in {"gather", "returned"} =>
        /\ Cardinality(Holders) <= max_concurrent
        /\ sem >= 0
        /\ sem + Cardinality(Holders) = max_concurrent

\* every token is taken while another coroutine still waits for one
C1_Witness ==
    /\ max_concurrent >= 1
    /\ Cardinality(Holders) = max_concurrent
    /\ \E t \in Tasks : pc[t] = "waiting"

\* C2: no exception leaves download_pdf, and the batch returns with every
\* coroutine at its own terminal status, whatever failed in the others.
C2_BatchNeverRaises ==
    /\ \A t \in Tasks : pc[t] # "raised"
    /\ batchPc = "returned" =>
         /\ \A t \in Tasks : Terminated(t) /\ result[t].status \in DownloadStatus
         /\ Len(results) > 0 <=> Len(urls) > 0

\* a batch of two has returned, every download failed, one of them on an
\* exception caught on its last attempt
C2_Witness ==
    /\ batchPc = "returned"
    /\ Len(urls) = 2
    /\ \A t \in Tasks : result[t].status # SUCCESS
    /\ \E t \in Tasks : result[t].message.detail # "" /\ Gets(t) = max_retries
    /\ \E t \in Tasks : result[t].status \in {FORBIDDEN, NOT_FOUND}

\* C3: the report has one entry for each requested URL and no other key:
\* as many entries as URLs when the URLs differ, fewer only by duplicates.
C3_OneEntryPerUrl ==
    batchPc = "returned" =>
        /\ ReportKeys = UrlSet
        /\ \A i, j \in DOMAIN results : results[i].key = results[j].key => i = j
        /\ Len(results) = Cardinality(UrlSet)
        /\ (\A a, b \in Tasks : urls[a] = urls[b] => a = b) => Len(results) = Len(urls)

\* a batch that names one URL twice has returned one entry
C3_Witness ==
    /\ batchPc = "returned"
    /\ Len(urls) = 2
    /\ urls[1] = urls[2]
    /\ Len(results) = 1

\* C4: a coroutine has a result exactly when it has terminated, the status
\* is one of the five of the closed set, and a terminated coroutine issues
\* no further GET, sleeps no more and writes no more.
C4_OneTerminalStatus ==
    /\ [](\A t \in Tasks :
            /\ Terminated(t) <=> result[t].status # None
            /\ Terminated(t) => result[t].status \in SpecStatuses /\ result[t].url = urls[t]
            /\ batchPc = "returned" => Terminated(t))
    /\ [][\A t \in Tasks :
            Terminated(t) =>
                /\ pc'[t] = "done"
                /\ result'[t] = result[t]
                /\ attempts'[t] = attempts[t]
                /\ retry_count'[t] = retry_count[t]]_vars

\* one download has terminated on an exception while the other is at its
\* second GET
C4_Witness ==
    \E t, u \in Tasks :
        /\ Terminated(t)
        /\ result[t].message.detail # ""
        /\ pc[u] = "get"
        /\ Gets(u) = 2

\* the file a terminated download names in its message
WrittenPath(t) == result[t].message.path
\* the content-type declares application/pdf
DeclaresPdf(a) == a.ctype = "application/pdf"
\* a body was read and it begins with the four signature bytes
HasSignature(a) == a.body # Unread /\ Len(a.body) > 0 /\ a.body[1] = "%PDF"
\* the attempt ended on a retryable HTTP status
FailedOnStatus(a) == a.status \notin {0, 200, 403, 404}
\* the attempt ended on an exception of session.get or response.read
FailedOnTransport(a) == a.err \in TransportErrors
\* the seconds the coroutine slept, attempt by attempt
Sleeps(t) == {i \in DOMAIN attempts[t] : attempts[t][i].slept # 0}

\* C5: whenever a download has terminated with SUCCESS, its outcome names a
\* path and the file there exists, is not empty and begins with %PDF.
C5_SuccessFileIntact ==
    \A t \in Tasks :
        result[t].status = SUCCESS =>
            /\ WrittenPath(t) \in FileNames
            /\ files[WrittenPath(t)].exists
            /\ files[WrittenPath(t)].data # <<>>
            /\ files[WrittenPath(t)].data[1] = "%PDF"

\* C6: an attempt that receives 403 (404) is the coroutine's last: it
\* terminates with FORBIDDEN (NOT_FOUND), no GET and no sleep follows.
C6_PermanentStatusStops ==
    \A t \in Tasks : \A i \in DOMAIN attempts[t] :
        attempts[t][i].status \in {403, 404} =>
            /\ i = Gets(t)
            /\ Terminated(t)
            /\ result[t].status = IF attempts[t][i].status = 403 THEN FORBIDDEN
                                  ELSE NOT_FOUND
            /\ attempts[t][i].slept = 0
            /\ i = 1 => Sleeps(t) = {}

\* a download whose first answer was 403 has terminated while the other
\* download of the batch is still running
C6_Witness ==
    \E t, u \in Tasks :
        /\ Gets(t) = 1
        /\ attempts[t][1].status = 403
        /\ Terminated(t)
        /\ Holding(u)

\* C7: a 200 is accepted only with a content-type of application/pdf and a
\* body that begins with %PDF; failing either, the coroutine terminates
\* with NOT_FOUND on that attempt, without sleep, retry or write.
C7_AcceptOnlyPdf ==
    \A t \in Tasks :
        /\ result[t].status = SUCCESS =>
             /\ attempts[t][Gets(t)].status = 200
             /\ DeclaresPdf(attempts[t][Gets(t)])
             /\ HasSignature(attempts[t][Gets(t)])
        /\ \A i \in DOMAIN attempts[t] :
             LET a == attempts[t][i]
             IN  (/\ a.status = 200
                  /\ \/ ~DeclaresPdf(a)
                     \/ a.body # Unread /\ ~HasSignature(a)) =>
                     /\ i = Gets(t)
                     /\ Terminated(t)
                     /\ result[t].status = NOT_FOUND
                     /\ a.slept = 0
                     /\ a.io = "none"
                     /\ a.err = ""

\* a download was rejected on its second attempt for its body, although
\* the content-type said application/pdf
C7_Witness ==
    \E t \in Tasks :
        /\ Gets(t) = 2
        /\ attempts[t][2].status = 200
        /\ attempts[t][2].ctype = "application/pdf"
        /\ attempts[t][2].body = BodyHtml
        /\ result[t].status = NOT_FOUND

\* C8: a coroutine that got a retryable status on every attempt terminates
\* with UNKNOWN_ERROR carrying the status, after exactly max_retries GETs.
C8_RetryableStatusExhausts ==
    \A t \in Tasks :
        /\ Gets(t) <= max_retries
        /\ (/\ Terminated(t)
            /\ Gets(t) > 0
            /\ \A i \in DOMAIN attempts[t] : FailedOnStatus(attempts[t][i])) =>
               /\ Gets(t) = max_retries
               /\ result[t].status = UNKNOWN_ERROR
               /\ result[t].message.text = "HTTP error"
               /\ result[t].message.code = attempts[t][Gets(t)].status

\* a download has terminated after three answers of 500
C8_Witness ==
    \E t \in Tasks :
        /\ Terminated(t)
        /\ Gets(t) = 3
        /\ \A i \in 1..3 : attempts[t][i].status = 500

\* C9: a coroutine all of whose attempts failed on a transport exception
\* terminates after max_retries attempts with NETWORK_ERROR and the
\* exception's text.
C9_TransportExhaustsAsNetworkError ==
    \A t \in Tasks :
        (/\ Terminated(t)
         /\ Gets(t) > 0
         /\ \A i \in DOMAIN attempts[t] : FailedOnTransport(attempts[t][i])) =>
            /\ Gets(t) = max_retries
            /\ result[t].status = NETWORK_ERROR
            /\ result[t].message.detail = attempts[t][Gets(t)].err

\* the delay the retry policy states before attempt j (j >= 2)
StatedDelay(j) == Min(Pow2(j - 2), 32)

\* C10: a coroutine whose first j-1 attempts failed transiently (retryable
\* status or transport exception) and whose j-th attempt is accepted
\* terminates with SUCCESS after j attempts, having slept min(2^(j-2), 32)
\* seconds just before the j-th; with j = 2 it slept once, for 1 second.
C10_SuccessAfterBackoff ==
    \A t \in Tasks :
        (/\ result[t].status = SUCCESS
         /\ Gets(t) >= 2
         /\ \A i \in 1..(Gets(t) - 1) :
              FailedOnStatus(attempts[t][i]) \/ FailedOnTransport(attempts[t][i])) =>
            /\ attempts[t][Gets(t) - 1].slept = StatedDelay(Gets(t))
            /\ Gets(t) = 2 => Cardinality(Sleeps(t)) = 1 /\ attempts[t][1].slept = 1

\* C11: the progress bar is advanced once for every download that has
\* terminated, whatever its status: its count is the number of terminated
\* downloads, and the number of requested URLs when the batch returns.
C11_ProgressOncePerTask ==
    batchPc \in {"gather", "returned"} =>
        /\ pbar = Cardinality({t \in Tasks : Terminated(t)})
        /\ batchPc = "returned" => pbar = Len(urls)

\* the downloads, and the entries of the report, that succeeded
SucceededTasks == {t \in Tasks : result[t].status = SUCCESS}
SucceededEntries == {i \in DOMAIN results : results[i].value.status = SUCCESS}

\* C12: the printed counts agree with the report, repeated URLs included:
\* total is the number of requested URLs and of report entries, succeeded
\* the number of downloads and of entries with SUCCESS, failed the number
\* of the others, and succeeded + failed = total.
C12_CountsMatchReport ==
    (batchPc = "returned" /\ stats.printed) =>
        /\ stats.total = Len(urls)
        /\ stats.total = Len(results)
        /\ stats.succeeded = Cardinality(SucceededTasks)
        /\ stats.succeeded = Cardinality(SucceededEntries)
        /\ stats.failed = Len(urls) - Cardinality(SucceededTasks)
        /\ stats.failed = Len(results) - Cardinality(SucceededEntries)
        /\ stats.succeeded + stats.failed = stats.total

\* where a URL is first requested
FirstRequest(u) == CHOOSE t \in Tasks : urls[t] = u /\ \A v \in Tasks : urls[v] = u => t <= v

\* C13: whatever the order in which the downloads returned, every entry of
\* the report holds, under its URL, the outcome of a download of that URL,
\* and the entries stand in the order in which the URLs were requested.
C13_ReportByUrlInRequestOrder ==
    batchPc = "returned" =>
        /\ \A i \in DOMAIN results :
             /\ results[i].value.url = results[i].key
             /\ \E t \in Tasks : urls[t] = results[i].key /\ result[t] = results[i].value
        /\ \A i, j \in DOMAIN results :
             i < j => FirstRequest(results[i].key) < FirstRequest(results[j].key)

\* two different URLs, the second download returned first and with another
\* status than the first, and the batch has returned
C13_Witness ==
    /\ batchPc = "returned"
    /\ Len(urls) = 2
    /\ urls[1] # urls[2]
    /\ finished = <<2, 1>>
    /\ result[1].status # result[2].status

\* C14: when the batch has returned, two downloads of different URLs never
\* both report SUCCESS for the same path: the successful URLs have as many
\* files as they are.
C14_OneFilePerSuccess ==
    batchPc = "returned" =>
        /\ \A t, u \in SucceededTasks :
             urls[t] # urls[u] => WrittenPath(t) # WrittenPath(u)
        /\ Cardinality({WrittenPath(t) : t \in SucceededTasks})
             = Cardinality({urls[t] : t \in SucceededTasks})

\* C15: with max_concurrent <= 0 the construction of the manager fails at
\* once: the batch never reaches its gather, so no task takes or waits for a
\* token, no GET is issued, no session is opened and no outcome or report
\* entry is produced.
C15_BadConcurrencyFailsFirst ==
    max_concurrent <= 0 =>
        /\ batchPc \in {"construct", "config_error"}
        /\ session = None
        /\ results = <<>>
        /\ \A t \in Tasks :
             /\ pc[t] = "waiting"
             /\ Gets(t) = 0
             /\ result[t] = NoResult

C15_Witness ==
    /\ batchPc = "config_error"
    /\ max_concurrent = 0
    /\ Len(urls) = 2

\* C16: after a second run of the same batch into the same directory in
\* which, as in the first, every URL answered with its valid document, every
\* URL has the status it had in the first run and the directory holds the
\* same files with the same contents as after the first run.
ValidAnswer(t) ==
    /\ Gets(t) = 1
    /\ attempts[t][1].status = 200
    /\ DeclaresPdf(attempts[t][1])
    /\ attempts[t][1].body = BodyOf(urls[t])

C16_RerunLeavesSameFiles ==
    (run = 2 /\ batchPc = "returned" /\ \A t \in Tasks : ValidAnswer(t)) =>
        /\ \A t \in Tasks : result[t].status = first.statuses[t]
        /\ files = first.files

\* C17: the path of every file written, and of every SUCCESS outcome, is the
\* last segment of the URL's path, or document_<hash of the URL>.pdf when
\* that segment is empty, followed by ".pdf" exactly when it does not end
\* with ".pdf" already: one name directly under the output directory, ending
\* with ".pdf".
LastSegment(url) == IF Len(url.path) = 0 THEN <<>> ELSE url.path[Len(url.path)]
StatedName(url) ==
    LET stem == IF LastSegment(url) = <<>>
                THEN <<"document_", Hash(url), ".pdf">>
                ELSE LastSegment(url)
    IN  IF stem[Len(stem)] = ".pdf" THEN stem ELSE stem \o <<".pdf">>
OneExtension(name) ==
    /\ Len(name) >= 2
    /\ name[Len(name)] = ".pdf"
    /\ name[Len(name) - 1] # ".pdf"
C17_PathFromUrlBasename ==
    /\ \A u \in URLS :
         /\ Filename(u) = StatedName(u)
         /\ OneExtension(Filename(u))
         /\ Filename(u) \in FileNames
    /\ \A t \in Tasks :
         /\ pc[t] \in {"wqueue", "wopen", "wdone"} => OneExtension(Filename(urls[t]))
         /\ result[t].status = SUCCESS =>
              /\ WrittenPath(t) = StatedName(urls[t])
              /\ files[WrittenPath(t)].exists
    /\ \A f \in FileNames :
         files[f].exists => \E t \in Tasks : Gets(t) > 0 /\ f = StatedName(urls[t])

C17_Witness ==
    /\ batchPc = "returned"
    /\ Len(urls) = 2
    /\ urls[1] = UrlB /\ urls[2] = UrlC
    /\ \A t \in Tasks : result[t].status = SUCCESS
    /\ WrittenPath(1) = <<"x", ".pdf">>
    /\ WrittenPath(2) = <<"document_", "33", ".pdf">>

\* the delays the retry policy lists, by 0-based attempt counter
StatedBackoff(a) ==
    CASE a = 0 -> 1 [] a = 1 -> 2 [] a = 2 -> 4 [] a = 3 -> 8 [] a = 4 -> 16
      [] OTHER -> 32

\* what C18 says of every state
C18_Delays ==
    /\ \A a \in 0..MaxExponent : WaitTime(a) = StatedBackoff(a)
    /\ \A t \in Tasks :
         /\ pc[t] = "sleep" => Gets(t) >= 1 /\ FailedOnStatus(Last(attempts[t]))
         /\ \A i \in DOMAIN attempts[t] :
              /\ (FailedOnStatus(attempts[t][i]) /\ i - 1 < max_retries - 1) =>
                   /\ attempts[t][i].slept = StatedBackoff(i - 1)
                   /\ i = Gets(t) => pc[t] = "sleep"
              /\ i - 1 >= max_retries - 1 => attempts[t][i].slept = 0
              /\ i = Gets(t) /\ attempts[t][i].status = 0 => attempts[t][i].slept = 0

\* what C18 says of every step: the sleep ends in the next GET
C18_Wakes ==
    \A t \in Tasks :
        (pc[t] = "sleep" /\ pc'[t] # "sleep") =>
            /\ pc'[t] = "get"
            /\ Len(attempts'[t]) = Gets(t) + 1
            /\ retry_count'[t] = retry_count[t] + 1

\* C18: after attempt a (counted from 0, a < max_retries - 1) got a status
\* other than 200, 403 and 404 the coroutine sleeps min(2^a, 32) seconds
\* (1, 2, 4, 8, 16, 32, 32, ...) and then issues attempt a + 1; it does not
\* sleep before its first GET nor after its last permitted attempt.
C18_BackoffAfterRetryableStatus == []C18_Delays /\ [][C18_Wakes]_vars

C18_Witness ==
    \E t \in Tasks :
        /\ Terminated(t)
        /\ Gets(t) = max_retries
        /\ \A i \in DOMAIN attempts[t] : FailedOnStatus(attempts[t][i])
        /\ attempts[t][1].slept = 1
        /\ attempts[t][2].slept = 2
        /\ attempts[t][3].slept = 0

\* C19: when an attempt that is not the last permitted one failed with a
\* transport exception and the next GET has been issued, the coroutine slept
\* min(2^attempt, 32) seconds in between, as after a retryable status.
C19_BackoffAfterTransportError ==
    \A t \in Tasks :
        \A i \in DOMAIN attempts[t] :
            (FailedOnTransport(attempts[t][i]) /\ i - 1 < max_retries - 1 /\ i < Gets(t)) =>
                attempts[t][i].slept = StatedBackoff(i - 1)

\* what C20 says of every state
C20_Held ==
    /\ \A t \in Tasks :
         /\ pc[t] = "waiting" => Gets(t) = 0
         /\ (Gets(t) > 0 /\ ~Terminated(t)) => Holding(t)
         /\ Terminated(t) => ~Holding(t)
    /\ batchPc \in {"gather", "returned"} =>
         /\ sem >= 0
         /\ sem + Cardinality(Holders) = max_concurrent
    /\ batchPc = "returned" => sem = max_concurrent

\* what C20 says of every step: a token is taken on entry only, and given
\* back once, in the step that terminates the coroutine
HoldingNext(t) == pc'[t] \in {"get", "read", "wqueue", "wopen", "wdone", "sleep"}
C20_TakenAndReleasedOnce ==
    /\ \A t \in Tasks :
         /\ (~Holding(t) /\ HoldingNext(t)) => pc[t] = "waiting" /\ sem' = sem - 1
         /\ (Holding(t) /\ ~HoldingNext(t)) => pc'[t] = "done" /\ sem' = sem + 1
         /\ Terminated(t) => pc'[t] = "done"
    /\ (batchPc = "gather" /\ sem' # sem) =>
         \E t \in Tasks : Holding(t) # HoldingNext(t)

\* C20: a coroutine takes its token before its first GET, holds it through
\* every retry, backoff sleep and disk write, and gives it back exactly once,
\* in the step that terminates it, whatever the terminal status; when the
\* batch returns all max_concurrent tokens are free.
C20_TokenHeldUntilTerminal == []C20_Held /\ [][C20_TakenAndReleasedOnce]_vars

C20_Witness ==
    /\ batchPc = "returned"
    /\ Len(urls) = 2
    /\ max_concurrent = 1
    /\ sem = 1
    /\ \E t, u \in Tasks :
         /\ Gets(t) = max_retries
         /\ result[t].status \in {UNKNOWN_ERROR, NETWORK_ERROR}
         /\ result[u].status = SUCCESS

\* every coroutine has returned and so has the batch
AllReturned == batchPc = "returned" /\ \A t \in Tasks : Terminated(t)

\* C21: with max_concurrent >= 1, and every GET, sleep and disk write ending,
\* no coroutine issues more than max_retries GETs, every coroutine terminates
\* (having taken a token and issued a GET, so none waits for ever) and the
\* batch returns, also when there are more URLs than tokens.
C21_EveryTaskTerminates ==
    /\ [](\A t \in Tasks : /\ Gets(t) <= max_retries
                            /\ Terminated(t) => Gets(t) >= 1 /\ ~Holding(t))
    /\ (max_concurrent >= 1) ~> AllReturned

C21_Witness ==
    /\ AllReturned
    /\ max_concurrent = 1
    /\ Len(urls) = 2
    /\ \E t \in Tasks : Gets(t) = max_retries
    /\ results # <<>>

\* C22: a manager builds at most one ClientSession: none before the first
\* attempt (so none for an empty URL list), one from the first attempt on,
\* and every attempt of every coroutine is issued on that one session.
C22_OneSessionPerManager ==
    /\ created <= 1
    /\ created = 0 <=> session = None
    /\ created = 0 <=> \A t \in Tasks : Gets(t) = 0
    /\ Len(urls) = 0 => created = 0
    /\ \A t \in Tasks : \A i \in DOMAIN attempts[t] : attempts[t][i].sess = 1

C22_Witness ==
    /\ created = 1
    /\ max_concurrent = 2
    /\ Len(urls) = 2
    /\ \A t \in Tasks : Holding(t) /\ Gets(t) >= 2

\* C23: the session is closed by the return of the batch and not before:
\* once batch_download_pdfs has returned no session is left open, and a
\* session is only ever closed when every coroutine has terminated, so every
\* coroutine inside its retry loop has an open session for its GET.
C23_SessionClosedAtEndOnly ==
    /\ batchPc = "returned" => session = IF created = 0 THEN None ELSE "closed"
    /\ batchPc = "config_error" => session = None
    /\ session = "closed" =>
         /\ batchPc = "returned"
         /\ \A t \in Tasks : Terminated(t)
    /\ \A t \in Tasks : (Holding(t) \/ pc[t] = "waiting") => session # "closed"
    /\ \A t \in Tasks : Holding(t) => session = "open"

C23_Witness ==
    /\ batchPc = "returned"
    /\ session = "closed"
    /\ Len(urls) = 2
    /\ \E t \in Tasks : Gets(t) = max_retries
    /\ \E t \in Tasks : result[t].status = SUCCESS

\* C24: when the batch has returned and two downloads were both accepted for
\* the same path, the file there holds the whole body of one of the two, and
\* nothing else.
C24_LastWriterWins ==
    batchPc = "returned" =>
        \A t, u \in SucceededTasks :
            (t # u /\ WrittenPath(t) = WrittenPath(u)) =>
                /\ files[WrittenPath(t)].exists
                /\ files[WrittenPath(t)].data \in {BodyOf(urls[t]), BodyOf(urls[u])}

\* the write of coroutine t is queued or running in the pool
Writing(t) == pc[t] \in {"wqueue", "wopen"}

\* C25: while the write of one coroutine is queued or running in the pool,
\* every other coroutine that holds a token and awaits a GET, a body or the
\* end of its sleep can take its next step, and a coroutine that waits for a
\* token can take a free one.
C25_WriteDoesNotBlockOthers ==
    \A t, u \in Tasks :
        (t # u /\ Writing(t)) =>
            /\ pc[u] = "get" => ENABLED GetResponds(u)
            /\ pc[u] = "read" => ENABLED ReadCompletes(u)
            /\ pc[u] = "sleep" => ENABLED SleepDone(u)
            /\ (pc[u] = "waiting" /\ sem > 0) => ENABLED Acquire(u)

C25_Witness ==
    \E t, u \in Tasks :
        /\ pc[t] = "wopen"
        /\ pc[u] = "get"
        /\ Gets(u) = 2

\* C26: a coroutine that has terminated with a status other than SUCCESS has
\* opened (created or truncated) and written no file in any of its attempts;
\* when it was the only download of the batch, the directory is empty.
C26_FailureLeavesNoFile ==
    \A t \in Tasks :
        (Terminated(t) /\ result[t].status # SUCCESS) =>
            /\ \A i \in DOMAIN attempts[t] : attempts[t][i].io = "none"
            /\ Len(urls) = 1 => \A f \in FileNames : ~files[f].exists

\* the attempt ended on an exception of the disk write
FailedOnDisk(a) == a.err \in DiskErrors

\* C27: an exception of the disk write never leaves download_pdf; after it
\* the coroutine has issued its next GET at once, without sleeping, unless
\* the attempt was its last permitted one, and then it has terminated with
\* UNKNOWN_ERROR carrying the exception's text; SUCCESS is never reported on
\* an attempt whose write failed.
C27_WriteErrorIsRetried ==
    \A t \in Tasks :
        /\ pc[t] # "raised"
        /\ \A i \in DOMAIN attempts[t] :
             FailedOnDisk(attempts[t][i]) =>
                 /\ attempts[t][i].slept = 0
                 /\ attempts[t][i].status = 200
                 /\ HasSignature(attempts[t][i])
                 /\ i - 1 < max_retries - 1 => i < Gets(t)
                 /\ i - 1 = max_retries - 1 =>
                      /\ Terminated(t)
                      /\ result[t].status = UNKNOWN_ERROR
                      /\ result[t].message.detail = attempts[t][i].err
        /\ result[t].status = SUCCESS =>
             /\ ~FailedOnDisk(Last(attempts[t]))
             /\ Last(attempts[t]).io = "written"

C27_Witness ==
    \E t \in Tasks :
        /\ Terminated(t)
        /\ Gets(t) = max_retries
        /\ \A i \in DOMAIN attempts[t] : FailedOnDisk(attempts[t][i])
        /\ attempts[t][1].io = "none"
        /\ attempts[t][max_retries].io = "opened"
        /\ result[t].message.detail = "OSError"

====
